---- MODULE Spec2Model ----
(***************************************************************************)
(* A model of the two HTTP clients of servicestack-go:                     *)
(*   - Client            (client.go): the generic, path-based client       *)
(*   - JsonServiceClient (servicestack.go): the convention-based client    *)
(* A call of a client takes two steps: it builds the outgoing request, and *)
(* then the exchange with a server, whose answer is chosen                 *)
(* nondeterministically, ends and the call classifies and decodes the      *)
(* answer.  Spec is a program using both clients, JsonSpec and ClientSpec  *)
(* a program using one of them, ErrorSpec a caller rendering an exception. *)
(***************************************************************************)
EXTENDS Integers, Sequences, FiniteSets, TLC

VARIABLES jsc, gc, heap, last

vars == <<jsc, gc, heap, last>>

(***************************************************************************)
(* Bounds of the model.                                                    *)
(***************************************************************************)
\* longest "errors" array a response body carries
MaxErrors == 2
\* addresses a caller may allocate a response container at
NumAddrs == 2

(***************************************************************************)
(* Go values.  nil (a nil interface, pointer, error or io.Reader) is Nil;  *)
(* a pointer to a response container is Ptr(a); the struct it points to    *)
(* lives in heap[a].                                                       *)
(***************************************************************************)
Nil == [t |-> "nil"]

Ptr(a) == [t |-> "ptr", addr |-> a]

Addrs == 1..NumAddrs

(***************************************************************************)
(* JSON syntax trees: what the bytes of a document spell.  Invalid is the  *)
(* tree of a byte string that is not a JSON document (plain text, the      *)
(* empty string).                                                          *)
(***************************************************************************)
Invalid == [t |-> "invalid"]

JNull == [t |-> "null"]

JStr(s) == [t |-> "str", s |-> s]

JNum(n) == [t |-> "num", n |-> n]

JBool(b) == [t |-> "bool", b |-> b]

JArr(a) == [t |-> "arr", a |-> a]

JObj(o) == [t |-> "obj", o |-> o]

\* what stands for the value of a key the object has not
Absent == [t |-> "absent"]

\* the value of key k of the object tree j
Field(j, k) == IF k \in DOMAIN j.o THEN j.o[k] ELSE Absent

(***************************************************************************)
(* The error envelope types and the test response DTO, with their zero     *)
(* values.  A nil slice and a nil map are the empty sequence and the empty *)
(* function.                                                               *)
(***************************************************************************)
ZeroResponseError == [ErrorCode |-> "", FieldName |-> "", Message |-> "", Meta |-> <<>>]

ZeroResponseStatus ==
  [ErrorCode |-> "", Message |-> "", StackTrace |-> "", Errors |-> <<>>, Meta |-> <<>>]

ZeroErrorResponse == [ResponseStatus |-> ZeroResponseStatus]

ZeroHelloResponse == [Result |-> ""]

(***************************************************************************)
(* encoding/json's decoding of a syntax tree j into a typed Go value whose *)
(* current content is old.  Each decoder returns the new content v and     *)
(* whether a type error was met (e): like the library, decoding goes on    *)
(* after a type error and leaves the offending field as it was.  A key the *)
(* document has not (Absent) leaves its field alone.                       *)
(***************************************************************************)
Decoded(v, e) == [v |-> v, e |-> e]

\* into a string: a JSON string is stored, null changes nothing
UnmarshalString(j, old) ==
  IF j.t = "str" THEN Decoded(j.s, FALSE)
  ELSE IF j.t \in {"null", "absent"} THEN Decoded(old, FALSE)
  ELSE Decoded(old, TRUE)

\* into a map[string]string: null gives the nil map, an object adds its keys
UnmarshalMeta(j, old) ==
  IF j.t = "absent" THEN Decoded(old, FALSE)
  ELSE IF j.t = "null" THEN Decoded(<<>>, FALSE)
  ELSE IF j.t # "obj" THEN Decoded(old, TRUE)
  ELSE Decoded([k \in (DOMAIN old) \cup (DOMAIN j.o) |->
                  IF k \in DOMAIN j.o THEN UnmarshalString(j.o[k], "").v ELSE old[k]],
               \E k \in DOMAIN j.o : UnmarshalString(j.o[k], "").e)

UnmarshalResponseError(j, old) ==
  IF j.t \in {"null", "absent"} THEN Decoded(old, FALSE)
  ELSE IF j.t # "obj" THEN Decoded(old, TRUE)
  ELSE LET ec == UnmarshalString(Field(j, "errorCode"), old.ErrorCode)
           fn == UnmarshalString(Field(j, "fieldName"), old.FieldName)
           ms == UnmarshalString(Field(j, "message"), old.Message)
           mt == UnmarshalMeta(Field(j, "meta"), old.Meta)
       IN  Decoded([ErrorCode |-> ec.v, FieldName |-> fn.v, Message |-> ms.v, Meta |-> mt.v],
                   ec.e \/ fn.e \/ ms.e \/ mt.e)

\* into a []ResponseError: null gives the nil slice; element i of an array is
\* decoded into element i of the slice, which is the old one when there is one
UnmarshalErrors(j, old) ==
  IF j.t = "absent" THEN Decoded(old, FALSE)
  ELSE IF j.t = "null" THEN Decoded(<<>>, FALSE)
  ELSE IF j.t # "arr" THEN Decoded(old, TRUE)
  ELSE LET el(i) == UnmarshalResponseError(
                      j.a[i], IF i <= Len(old) THEN old[i] ELSE ZeroResponseError)
       IN  Decoded([i \in 1..Len(j.a) |-> el(i).v], \E i \in 1..Len(j.a) : el(i).e)

UnmarshalResponseStatus(j, old) ==
  IF j.t \in {"null", "absent"} THEN Decoded(old, FALSE)
  ELSE IF j.t # "obj" THEN Decoded(old, TRUE)
  ELSE LET ec == UnmarshalString(Field(j, "errorCode"), old.ErrorCode)
           ms == UnmarshalString(Field(j, "message"), old.Message)
           st == UnmarshalString(Field(j, "stackTrace"), old.StackTrace)
           er == UnmarshalErrors(Field(j, "errors"), old.Errors)
           mt == UnmarshalMeta(Field(j, "meta"), old.Meta)
       IN  Decoded([ErrorCode |-> ec.v, Message |-> ms.v, StackTrace |-> st.v,
                    Errors |-> er.v, Meta |-> mt.v],
                   ec.e \/ ms.e \/ st.e \/ er.e \/ mt.e)

\* json.Unmarshal(body, &errorResponse), parseError's anonymous struct
\* { ResponseStatus `json:"responseStatus"` }: bytes that are no JSON document
\* (the empty body included) are a syntax error and leave the target untouched
UnmarshalErrorResponse(body, old) ==
  LET j == body.syn
  IN
  IF j = Invalid THEN Decoded(old, TRUE)
  ELSE IF j.t = "null" THEN Decoded(old, FALSE)
  ELSE IF j.t # "obj" THEN Decoded(old, TRUE)
  ELSE LET rs == UnmarshalResponseStatus(Field(j, "responseStatus"), old.ResponseStatus)
       IN  Decoded([ResponseStatus |-> rs.v], rs.e)

\* UnmarshalHelloResponse taking an empty body for a document that sets nothing
UnmarshalHelloResponseEmptyOk(body, old) ==
  LET j == body.syn
  IN
  IF body.raw = "" THEN Decoded(old, FALSE)
  ELSE IF j = Invalid THEN Decoded(old, TRUE)
  ELSE IF j.t = "null" THEN Decoded(old, FALSE)
  ELSE IF j.t # "obj" THEN Decoded(old, TRUE)
  ELSE LET r == UnmarshalString(Field(j, "result"), old.Result)
       IN  Decoded([Result |-> r.v], r.e)

\* json.Unmarshal(body, response) into a HelloResponse
\* { Result string `json:"result"` }
UnmarshalHelloResponse(body, old) ==
  LET j == body.syn
  IN
  IF j = Invalid THEN Decoded(old, TRUE)
  ELSE IF j.t = "null" THEN Decoded(old, FALSE)
  ELSE IF j.t # "obj" THEN Decoded(old, TRUE)
  ELSE LET r == UnmarshalString(Field(j, "result"), old.Result)
       IN  Decoded([Result |-> r.v], r.e)

(***************************************************************************)
(* Text.  Go strings are TLA+ strings, joined with \o.  Where the code or  *)
(* the library looks at single characters (the type name that getRequestPath*)
(* splits, the values url.Values.Encode escapes) the text is a sequence of *)
(* one-character strings, and StringOf turns it into a string.             *)
(***************************************************************************)
RECURSIVE StringOf(_)
StringOf(cs) == IF cs = <<>> THEN "" ELSE Head(cs) \o StringOf(Tail(cs))

\* strings.Split(cs, sep): the pieces of cs between the occurrences of sep
RECURSIVE Split(_, _)
Split(cs, sep) ==
  IF \A i \in 1..Len(cs) : cs[i] # sep THEN <<cs>>
  ELSE LET i == CHOOSE n \in 1..Len(cs) : cs[n] = sep /\ \A m \in 1..(n - 1) : cs[m] # sep
       IN  <<SubSeq(cs, 1, i - 1)>> \o Split(SubSeq(cs, i + 1, Len(cs)), sep)

\* strings.TrimPrefix(cs, <<c>>): cs without one leading c
TrimPrefix(cs, c) == IF Len(cs) > 0 /\ cs[1] = c THEN Tail(cs) ELSE cs

(***************************************************************************)
(* A request value: type is what fmt's %T prints for it, val the JSON tree *)
(* of its fields (string values as character sequences), omitempty the     *)
(* keys tagged omitempty, unsupported whether it holds a value json.Marshal*)
(* rejects (a channel, a func), rt what its ResponseType() returns.        *)
(***************************************************************************)
IsEmptyValue(j) ==
  \/ j.t = "null"
  \/ j.t = "str" /\ j.s = <<>>
  \/ j.t = "num" /\ j.n = 0
  \/ j.t = "bool" /\ ~j.b
  \/ j.t = "arr" /\ j.a = <<>>
  \/ j.t = "obj" /\ DOMAIN j.o = {}

\* json.Marshal(request): the tree of the encoding, or an error
Marshal(request) ==
  IF request.unsupported THEN [e |-> TRUE, syn |-> Invalid]
  ELSE IF request.val.t # "obj" THEN [e |-> FALSE, syn |-> request.val]
  ELSE [e |-> FALSE,
        syn |-> JObj([k \in {x \in DOMAIN request.val.o :
                               ~(x \in request.omitempty /\ IsEmptyValue(request.val.o[x]))}
                        |-> request.val.o[k]])]

(***************************************************************************)
(* fmt.Sprintf("%v", value) of a value decoded into interface{}: a string  *)
(* as it is, a bool as true/false, a number (a float64) by %g with the     *)
(* shortest mantissa: the plain digits while the decimal exponent is under *)
(* 6, and d.ddde+XX from 10^6 on.                                          *)
(***************************************************************************)
Digit(d) == CASE d = 0 -> "0" [] d = 1 -> "1" [] d = 2 -> "2" [] d = 3 -> "3"
              [] d = 4 -> "4" [] d = 5 -> "5" [] d = 6 -> "6" [] d = 7 -> "7"
              [] d = 8 -> "8" [] d = 9 -> "9"

\* the decimal digits of n >= 0, most significant first
RECURSIVE Digits(_)
Digits(n) == IF n < 10 THEN <<Digit(n)>> ELSE Digits(n \div 10) \o <<Digit(n % 10)>>

\* ds without its trailing "0"s
RECURSIVE StripZeros(_)
StripZeros(ds) ==
  IF Len(ds) > 0 /\ ds[Len(ds)] = "0" THEN StripZeros(SubSeq(ds, 1, Len(ds) - 1)) ELSE ds

\* strconv's %e with the shortest mantissa, for a whole number n >= 10^6
FormatE(n) ==
  LET ds   == Digits(n)
      exp  == Len(ds) - 1
      frac == StripZeros(Tail(ds))
      ex   == IF exp < 10 THEN <<"0">> \o Digits(exp) ELSE Digits(exp)
  IN  <<Head(ds)>> \o (IF frac = <<>> THEN <<>> ELSE <<".">> \o frac) \o <<"e", "+">> \o ex

\* strconv.FormatFloat(n, 'g', -1, 64) for a whole number n
FormatFloat(n) ==
  LET abs == IF n < 0 THEN 0 - n ELSE n
      txt == IF Len(Digits(abs)) - 1 >= 6 THEN FormatE(abs) ELSE Digits(abs)
  IN  IF n < 0 THEN <<"-">> \o txt ELSE txt

Sprint(j) ==
  CASE j.t = "str"  -> j.s
    [] j.t = "num"  -> FormatFloat(j.n)
    [] j.t = "bool" -> IF j.b THEN <<"t", "r", "u", "e">> ELSE <<"f", "a", "l", "s", "e">>
    [] OTHER        -> <<"m", "a", "p", "[", "]">>

(***************************************************************************)
(* url.Values and its Encode.  The encoded query string k1=v1&k2=v2... is  *)
(* kept as the sequence of its parameters, each the escaped key and the    *)
(* escaped value; the empty string is the empty sequence.  A URL is kept   *)
(* as the text before the "?" and the query string behind it.              *)
(***************************************************************************)
\* url.QueryEscape of one character
EscapeChar(c) ==
  CASE c = " " -> "+"
    [] c = "&" -> "%26"
    [] c = "=" -> "%3D"
    [] c = "+" -> "%2B"
    [] OTHER   -> c

RECURSIVE QueryEscape(_)
QueryEscape(cs) == IF cs = <<>> THEN "" ELSE EscapeChar(Head(cs)) \o QueryEscape(Tail(cs))

\* the JSON keys of the request DTOs of the model, in sorted order
SortedKeys == <<"age", "name", "nick", "vip">>

\* Encode: the parameters in the order of their keys
Encode(params) ==
  LET keys == SelectSeq(SortedKeys, LAMBDA k : k \in DOMAIN params)
  IN  [i \in 1..Len(keys) |-> [name |-> keys[i], value |-> QueryEscape(params[keys[i]])]]

URL(addr, query) == [addr |-> addr, query |-> query]

(***************************************************************************)
(* Errors.  fmt.Errorf gives an Errorf record holding the format and its   *)
(* arguments (w: the wrapped error of a %w).                               *)
(***************************************************************************)
MarshalError == [t |-> "json.UnsupportedTypeError"]

DecodeError == [t |-> "json.decodeError"]

TransportError(cause) == [t |-> "url.Error", cause |-> cause]

ReadError == [t |-> "io.readError"]

RequestError == [t |-> "http.requestError"]

Wrap(f, w) == [t |-> "Errorf", f |-> f, w |-> w]

StatusError(code, raw) ==
  [t |-> "Errorf", f |-> "request failed with status %d: %s", code |-> code, body |-> raw]

WebServiceException(code, desc, rs) ==
  [t |-> "WebServiceException", StatusCode |-> code, StatusDescription |-> desc,
   ResponseStatus |-> rs]

\* (*WebServiceException).Error with the message printed even when empty
ErrorAlwaysWithMessage(e) ==
  StringOf(Digits(e.StatusCode)) \o " " \o e.StatusDescription
    \o ": " \o e.ResponseStatus.Message

\* (*WebServiceException).Error: "%d %s: %s" of the code, the description and
\* the message, "%d %s" when the message is empty
Error(e) ==
  IF e.ResponseStatus.Message # ""
    THEN StringOf(Digits(e.StatusCode)) \o " " \o e.StatusDescription
           \o ": " \o e.ResponseStatus.Message
    ELSE StringOf(Digits(e.StatusCode)) \o " " \o e.StatusDescription

(***************************************************************************)
(* base64.StdEncoding.EncodeToString over the bytes of a text: every three *)
(* bytes give four characters of the alphabet; a last group of one or two  *)
(* bytes gives two or three characters, padded with "=" to four.           *)
(***************************************************************************)
\* the byte of a character of the user names and passwords of the model
Ord(c) ==
  CASE c = ":" -> 58 [] c = "a" -> 97 [] c = "b" -> 98 [] c = "e" -> 101
    [] c = "p" -> 112 [] c = "r" -> 114 [] c = "s" -> 115 [] c = "u" -> 117

Bytes(cs) == [i \in 1..Len(cs) |-> Ord(cs[i])]

encodeStd ==
  << "A", "B", "C", "D", "E", "F", "G", "H", "I", "J", "K", "L", "M", "N", "O", "P",
     "Q", "R", "S", "T", "U", "V", "W", "X", "Y", "Z", "a", "b", "c", "d", "e", "f",
     "g", "h", "i", "j", "k", "l", "m", "n", "o", "p", "q", "r", "s", "t", "u", "v",
     "w", "x", "y", "z", "0", "1", "2", "3", "4", "5", "6", "7", "8", "9", "+", "/" >>

\* the four characters of a group bs of one, two or three bytes
EncodeGroup(bs) ==
  LET val == bs[1] * 65536 + (IF Len(bs) >= 2 THEN bs[2] * 256 ELSE 0)
               + (IF Len(bs) >= 3 THEN bs[3] ELSE 0)
      c1  == encodeStd[((val \div 262144) % 64) + 1]
      c2  == encodeStd[((val \div 4096) % 64) + 1]
      c3  == encodeStd[((val \div 64) % 64) + 1]
      c4  == encodeStd[(val % 64) + 1]
  IN  CASE Len(bs) = 1 -> <<c1, c2, "=", "=">>
        [] Len(bs) = 2 -> <<c1, c2, c3, "=">>
        [] OTHER       -> <<c1, c2, c3, c4>>

RECURSIVE EncodeToString(_)
EncodeToString(bs) ==
  IF bs = <<>> THEN <<>>
  ELSE IF Len(bs) <= 3 THEN EncodeGroup(bs)
  ELSE EncodeGroup(SubSeq(bs, 1, 3)) \o EncodeToString(SubSeq(bs, 4, Len(bs)))

(***************************************************************************)
(* JsonServiceClient                                                       *)
(***************************************************************************)
PathPrefix == "/json/reply/"

\* getRequestPath without the removal of the package prefix
getRequestPathKeepPackage(request) == PathPrefix \o StringOf(TrimPrefix(request.type, "*"))

\* getRequestPath: the last "."-separated part of the %T name, without a
\* leading "*", behind the fixed prefix
getRequestPath(request) ==
  LET parts    == Split(request.type, ".")
      typeName == IF Len(parts) > 1 THEN parts[Len(parts)] ELSE request.type
  IN  PathPrefix \o StringOf(TrimPrefix(typeName, "*"))

\* toQueryString leaving out the empty values with the nil ones
toQueryStringSkipEmpty(v) ==
  LET m == Marshal(v)
  IN  IF m.e THEN [e |-> MarshalError, params |-> <<>>, s |-> <<>>]
      ELSE IF m.syn.t \notin {"obj", "null"}
        THEN [e |-> DecodeError, params |-> <<>>, s |-> <<>>]
      ELSE LET data   == IF m.syn.t = "null" THEN <<>> ELSE m.syn.o
               params == [k \in {x \in DOMAIN data : ~IsEmptyValue(data[x])} |-> Sprint(data[k])]
           IN  [e |-> Nil, params |-> params, s |-> Encode(params)]

\* toQueryString: marshal, decode into a map[string]interface{}, add every
\* non-nil value under its key, encode.  params holds the url.Values built
\* (one value a key, as the keys of a map are unique).
toQueryString(v) ==
  LET m == Marshal(v)
  IN  IF m.e THEN [e |-> MarshalError, params |-> <<>>, s |-> <<>>]
      ELSE IF m.syn.t \notin {"obj", "null"}
        THEN [e |-> DecodeError, params |-> <<>>, s |-> <<>>]
      ELSE LET data   == IF m.syn.t = "null" THEN <<>> ELSE m.syn.o
               params == [k \in {x \in DOMAIN data : data[x] # JNull} |-> Sprint(data[k])]
           IN  [e |-> Nil, params |-> params, s |-> Encode(params)]

\* basicAuth joining the user name and the password without the ":"
basicAuthNoColon(username, password) ==
  StringOf(EncodeToString(Bytes(username \o password)))

\* basicAuth: the base64 of username:password
basicAuth(username, password) ==
  StringOf(EncodeToString(Bytes(username \o <<":">> \o password)))

\* parseError: the envelope of the body when the body decodes, the raw body
\* as the message when it does not
parseError(statusCode, statusDescription, body) ==
  LET d == UnmarshalErrorResponse(body, ZeroErrorResponse)
  IN  IF d.e
        THEN WebServiceException(statusCode, statusDescription,
                                 [ZeroResponseStatus EXCEPT !.Message = body.raw])
        ELSE WebServiceException(statusCode, statusDescription, d.v.ResponseStatus)

\* http.NewRequest accepts a method that is a token
ValidMethod(method) == method \in {"GET", "POST", "PUT", "PATCH", "DELETE", "OPTIONS"}

\* JsonHeaders without the configured headers
JsonHeadersDefaultsOnly(c) == [k \in {"Content-Type", "Accept"} |-> "application/json"]

\* the header of the outgoing request: the defaults, then every configured
\* header set over them
JsonHeaders(c) ==
  LET defaults == [k \in {"Content-Type", "Accept"} |-> "application/json"]
  IN  [k \in (DOMAIN defaults) \cup (DOMAIN c.Headers) |->
         IF k \in DOMAIN c.Headers THEN c.Headers[k] ELSE defaults[k]]

\* IsQueryMethod with PATCH taken for a query method
IsQueryMethodWithPatch(method) == method = "GET" \/ method = "DELETE" \/ method = "PATCH"

\* the methods whose request travels in the query string, without a body
IsQueryMethod(method) == method = "GET" \/ method = "DELETE"

\* JsonIsError accepting 200 alone
JsonIsErrorNot200(statusCode) == statusCode # 200

\* Send's classification of a status as an error
JsonIsError(statusCode) == statusCode >= 400

\* what a call returns: the result, the error, and the heap it leaves
Outcome(result, err, h) == [result |-> result, err |-> err, heap |-> h]

\* the first half of Send, up to the request that goes on the wire: the request
\* built (Nil when Send returns before it has one) and the error returned then
SendRequest(c, method, request) ==
  LET requestPath == getRequestPath(request)
      isQuery     == IsQueryMethod(method)
      qs          == toQueryString(request)
      m           == Marshal(request)
      requestURL  == URL(StringOf(c.BaseURL) \o requestPath,
                         IF isQuery /\ qs.s # <<>> THEN qs.s ELSE <<>>)
      req         == [Method |-> method, URL |-> requestURL,
                      Body   |-> IF isQuery THEN Nil ELSE [syn |-> m.syn],
                      Header |-> JsonHeaders(c)]
  IN  IF isQuery /\ qs.e # Nil THEN [req |-> Nil, err |-> qs.e]
      ELSE IF ~isQuery /\ m.e
        THEN [req |-> Nil, err |-> Wrap("failed to marshal request: %w", MarshalError)]
      ELSE IF ~ValidMethod(method)
        THEN [req |-> Nil, err |-> Wrap("failed to create request: %w", RequestError)]
      ELSE [req |-> req, err |-> Nil]

\* the second half of Send, from httpClient.Do on, the exchange ending as exch,
\* with the response container in heap h
SendResponse(responseType, h, exch) ==
  IF exch.t = "doerr"
    THEN Outcome(Nil, Wrap("failed to send request: %w", TransportError(exch.cause)), h)
  ELSE IF exch.t = "readerr"
    THEN Outcome(Nil, Wrap("failed to read response: %w", ReadError), h)
  ELSE IF JsonIsError(exch.StatusCode)
    THEN Outcome(Nil, parseError(exch.StatusCode, exch.Status, exch.Body), h)
  ELSE IF responseType # Nil
    THEN LET d == UnmarshalHelloResponse(exch.Body, h[responseType.addr])
             g == [h EXCEPT ![responseType.addr] = d.v]
         IN  IF d.e
               THEN Outcome(Nil, Wrap("failed to unmarshal response: %w", DecodeError), g)
               ELSE Outcome(responseType, Nil, g)
  ELSE Outcome(Nil, Nil, h)

(***************************************************************************)
(* Client                                                                  *)
(***************************************************************************)
\* s without its leading (trailing) occurrences of c
RECURSIVE TrimLeft(_, _)
TrimLeft(cs, c) == IF Len(cs) > 0 /\ cs[1] = c THEN TrimLeft(Tail(cs), c) ELSE cs

RECURSIVE TrimRight(_, _)
TrimRight(cs, c) ==
  IF Len(cs) > 0 /\ cs[Len(cs)] = c THEN TrimRight(SubSeq(cs, 1, Len(cs) - 1), c) ELSE cs

\* url.JoinPath(base, path): the path appended to the base as one more element,
\* with exactly one "/" between them
JoinPath(base, path) ==
  URL(StringOf(TrimRight(base, "/")) \o "/" \o StringOf(TrimLeft(path, "/")), <<>>)

\* ClientHeaders with the defaults set over the configured headers
ClientHeadersDefaultsLast(c, request) ==
  LET defaults == [k \in (IF request # Nil THEN {"Content-Type"} ELSE {}) \cup {"Accept"}
                     |-> "application/json"]
  IN  [k \in (DOMAIN defaults) \cup (DOMAIN c.Headers) |->
         IF k \in DOMAIN defaults THEN defaults[k] ELSE c.Headers[k]]

\* the header of the outgoing request: Content-Type when a request value is
\* given, Accept always, then every configured header set over them
ClientHeaders(c, request) ==
  LET defaults == [k \in (IF request # Nil THEN {"Content-Type"} ELSE {}) \cup {"Accept"}
                     |-> "application/json"]
  IN  [k \in (DOMAIN defaults) \cup (DOMAIN c.Headers) |->
         IF k \in DOMAIN c.Headers THEN c.Headers[k] ELSE defaults[k]]

\* ClientIsError with the 1xx and 3xx statuses let through
ClientIsErrorFrom400(statusCode) == statusCode >= 400

\* doRequest's classification of a status as an error
ClientIsError(statusCode) == statusCode < 200 \/ statusCode >= 300

\* ShouldDecode without the test of the body's length
ShouldDecodeAnyBody(response, body) == response # Nil

\* whether doRequest decodes the body of a successful response
ShouldDecode(response, body) == response # Nil /\ body.raw # ""

\* the first half of doRequest, up to the request that goes on the wire: the
\* request built (Nil when doRequest returns before it has one) and the error
\* returned then
doRequestRequest(c, method, path, request) ==
  LET fullURL == JoinPath(c.BaseURL, path)
      m       == IF request = Nil THEN [e |-> FALSE, syn |-> Invalid] ELSE Marshal(request)
      req     == [Method |-> method, URL |-> fullURL,
                  Body   |-> IF request = Nil THEN Nil ELSE [syn |-> m.syn],
                  Header |-> ClientHeaders(c, request)]
  IN  IF m.e
        THEN [req |-> Nil, err |-> Wrap("failed to marshal request: %w", MarshalError)]
        ELSE [req |-> req, err |-> Nil]

\* the second half of doRequest, from HTTPClient.Do on, the exchange ending as
\* exch, with the response container in heap h
doRequestResponse(response, h, exch) ==
  IF exch.t = "doerr"
    THEN Outcome(Nil, Wrap("failed to execute request: %w", TransportError(exch.cause)), h)
  ELSE IF exch.t = "readerr"
    THEN Outcome(Nil, Wrap("failed to read response body: %w", ReadError), h)
  ELSE IF ClientIsError(exch.StatusCode)
    THEN Outcome(Nil, StatusError(exch.StatusCode, exch.Body.raw), h)
  ELSE IF ShouldDecode(response, exch.Body)
    THEN LET d == UnmarshalHelloResponse(exch.Body, h[response.addr])
             g == [h EXCEPT ![response.addr] = d.v]
         IN  IF d.e
               THEN Outcome(Nil, Wrap("failed to unmarshal response: %w", DecodeError), g)
               ELSE Outcome(Nil, Nil, g)
  ELSE Outcome(Nil, Nil, h)

(***************************************************************************)
(* The inputs of the calls.                                                *)
(***************************************************************************)
Chars_World == <<"W", "o", "r", "l", "d">>

Chars_AB == <<"A", "&", "B">>

TypeFooPtr == <<"*", "m", "a", "i", "n", ".", "F", "o", "o">>

TypeFoo == <<"m", "a", "i", "n", ".", "F", "o", "o">>

TypeBarPtr == <<"*", "d", "t", "o", ".", "B", "a", "r">>

TypeIntPtr == <<"*", "i", "n", "t">>

Request(type, val, omitempty, unsupported, rt) ==
  [type |-> type, val |-> val, omitempty |-> omitempty, unsupported |-> unsupported, rt |-> rt]

Obj1(k, v) == JObj([x \in {k} |-> v])

BarVal(name, age, nick, vip) ==
  JObj([k \in {"name", "age", "nick", "vip"} |->
          CASE k = "name" -> name [] k = "age" -> age [] k = "nick" -> nick [] k = "vip" -> vip])

Requests ==
  { Request(TypeFooPtr, Obj1("name", JStr(Chars_World)), {}, FALSE, "HelloResponse"),
    Request(TypeFoo, Obj1("name", JStr(Chars_AB)), {}, FALSE, "HelloResponse"),
    Request(TypeFooPtr, Obj1("name", JStr(Chars_World)), {}, TRUE, "HelloResponse"),
    Request(TypeBarPtr, BarVal(JStr(Chars_World), JNum(7), JNull, JBool(TRUE)),
            {"age"}, FALSE, "none"),
    Request(TypeBarPtr, BarVal(JStr(<<>>), JNum(0), JNull, JBool(FALSE)), {}, FALSE, "none"),
    Request(TypeBarPtr, BarVal(JNull, JNum(0), JNull, JNull), {"age"}, FALSE, "HelloResponse"),
    Request(TypeBarPtr, BarVal(JNull, JNum(1000000), JStr(Chars_AB), JNull),
            {}, FALSE, "HelloResponse"),
    Request(TypeIntPtr, JNum(5), {}, FALSE, "none") }

\* the request values handed to the generic client
ClientRequests == {r \in Requests : r.type = TypeFooPtr /\ r.val = Obj1("name", JStr(Chars_World))}

\* the server's JSON encoder: the text of a tree (keys in the order of KeyOrder)
KeyOrder == <<"responseStatus", "result", "error", "errorCode", "fieldName", "message",
              "stackTrace", "errors", "meta", "k", "min">>

RECURSIVE Text(_)
RECURSIVE TextOfArray(_)
RECURSIVE TextOfPairs(_, _)
\* the texts of the elements of a, with commas between
TextOfArray(a) ==
  IF a = <<>> THEN ""
  ELSE Text(Head(a)) \o (IF Len(a) > 1 THEN "," ELSE "") \o TextOfArray(Tail(a))

\* the "key":value texts of the keys of o, with commas between
TextOfPairs(o, keys) ==
  IF keys = <<>> THEN ""
  ELSE "\"" \o Head(keys) \o "\":" \o Text(o[Head(keys)])
       \o (IF Len(keys) > 1 THEN "," ELSE "") \o TextOfPairs(o, Tail(keys))

Text(j) ==
  CASE j.t = "null" -> "null"
    [] j.t = "str"  -> "\"" \o j.s \o "\""
    [] j.t = "num"  -> StringOf(Digits(j.n))
    [] j.t = "bool" -> IF j.b THEN "true" ELSE "false"
    [] j.t = "arr"  -> "[" \o TextOfArray(j.a) \o "]"
    [] j.t = "obj"  ->
         "{" \o TextOfPairs(j.o, SelectSeq(KeyOrder, LAMBDA k : k \in DOMAIN j.o)) \o "}"

\* a response body: its bytes and the tree they spell
JsonBody(j) == [raw |-> Text(j), syn |-> j]

PlainBody(s) == [raw |-> s, syn |-> Invalid]

ErrorEntries ==
  { JObj([k \in {"errorCode", "fieldName", "message"} |->
            CASE k = "errorCode" -> JStr("NotEmpty") [] k = "fieldName" -> JStr("Name")
              [] k = "message" -> JStr("Name cannot be empty")]),
    JObj([k \in {"errorCode", "fieldName", "meta"} |->
            CASE k = "errorCode" -> JStr("Range") [] k = "fieldName" -> JStr("Age")
              [] k = "meta" -> Obj1("min", JStr("0"))]) }

ErrorArrays(n) == UNION {[1..m -> ErrorEntries] : m \in 0..n}

Envelopes ==
  { JObj([k \in {"errorCode", "message", "errors"} |->
            CASE k = "errorCode" -> JStr("ValidationError")
              [] k = "message" -> JStr("Name is required")
              [] k = "errors" -> JArr(a)]) : a \in ErrorArrays(MaxErrors) }
  \cup
  { JObj([k \in {"errorCode", "stackTrace", "errors", "meta"} |->
            CASE k = "errorCode" -> JStr("Boom")
              [] k = "stackTrace" -> JStr("at X")
              [] k = "errors" -> JArr(a)
              [] k = "meta" -> Obj1("k", JStr("v"))]) : a \in ErrorArrays(1) }
  \cup
  { Obj1("message", JStr("only a message")),
    JObj([k \in {"message", "errors"} |->
            CASE k = "message" -> JStr("m") [] k = "errors" -> JStr("none")]) }

Bodies ==
  { PlainBody(""), PlainBody("Server error"),
    JsonBody(JStr("Server error")), JsonBody(JNull), JsonBody(JObj(<<>>)),
    JsonBody(Obj1("result", JStr("Hello, World!"))), JsonBody(Obj1("result", JNum(5))),
    JsonBody(Obj1("error", JStr("boom"))),
    JsonBody(Obj1("responseStatus", JNull)), JsonBody(Obj1("responseStatus", JStr("oops"))) }
  \cup { JsonBody(Obj1("responseStatus", e)) : e \in Envelopes }

StatusCodes == {101, 200, 299, 300, 399, 400, 500}

\* http.StatusText
StatusText(code) ==
  CASE code = 101 -> "Switching Protocols" [] code = 200 -> "OK"
    [] code = 300 -> "Multiple Choices" [] code = 400 -> "Bad Request"
    [] code = 500 -> "Internal Server Error" [] OTHER -> ""

\* a response as http.Client.Do returns it
Response(code, body) ==
  [t |-> "resp", StatusCode |-> code,
   Status |-> StringOf(Digits(code)) \o " " \o StatusText(code), Body |-> body]

\* how an exchange can end: a response, a failure of Do, a failure reading the body
Exchanges ==
  { Response(code, body) : code \in StatusCodes, body \in Bodies }
  \cup { [t |-> "doerr", cause |-> c] : c \in {"timeout", "refused"} }
  \cup { [t |-> "readerr"] }

\* the content a caller's response container may hold before a call
Containers == {ZeroHelloResponse, [Result |-> "old"]}

Methods == {"GET", "POST", "PUT", "PATCH", "DELETE"}

\* the methods Send is called with: the five verbs, another valid one, and one
\* http.NewRequest rejects
SendMethods == Methods \cup {"OPTIONS", "BAD METHOD"}

\* the requests that implement IReturn
IReturnRequests == {r \in Requests : r.type # TypeIntPtr}

Chars_Base == <<"h", "t", "t", "p", ":", "/", "/", "h">>

Paths == {<<"/", "h", "e", "l", "l", "o">>, <<"h", "e", "l", "l", "o">>}

\* the headers a caller writes to the mapping of the convention-based client
HeaderNames == {"X-Custom-Header"}

HeaderValues == {"custom-value"}

\* the headers a caller sets on the generic client: one of the defaults, with
\* two values other than the default one
ClientHeaderNames == {"Accept"}

ClientHeaderValues == {"text/plain", "application/xml"}

\* the bearer tokens and the (user name, password) pairs of the model
Tokens == {"abc"}

Credentials == { <<(<<"u", "s", "e", "r">>), (<<"p", "a", "s", "s">>)>>,
                 <<(<<"a">>), (<<>>)>> }

\* ctx.Err() of a context that is done
CtxErrors == {"context canceled", "context deadline exceeded"}

\* the state of the context a generic call is given
Contexts == {"live"} \cup CtxErrors

\* the exceptions a caller builds by hand, as the tests do
ErrorStatuses ==
  { <<400, "Bad Request">>, <<404, "Not Found">>, <<500, "Internal Server Error">>,
    <<500, "500 Internal Server Error">>, <<503, "">> }

Exceptions ==
  { WebServiceException(st[1], st[2],
      [ErrorCode |-> ec, Message |-> m, StackTrace |-> tr, Errors |-> er, Meta |-> <<>>]) :
      st \in ErrorStatuses, ec \in {"", "ValidationError"},
      m \in {"", "Validation failed"}, tr \in {"", "at X"},
      er \in {<<>>, <<[ZeroResponseError EXCEPT !.Message = "Name cannot be empty"]>>} }

(***************************************************************************)
(* State: the two clients, the heap holding the caller's response          *)
(* container, and the record of the call in progress: its inputs, the      *)
(* request put on the wire, the number of exchanges it has performed and,  *)
(* once it has returned, the exchange and                                  *)
(* what it returned.  A call is "sent" while its request is with the       *)
(* server and "done" when it has returned; between the calls last is       *)
(* NoCall.  A client serves one call at a time.                            *)
(***************************************************************************)
NoCall == [client |-> "none", phase |-> "idle"]

\* NewJsonServiceClient(baseURL)
NewJsonServiceClient(baseURL) == [BaseURL |-> baseURL, Timeout |-> 30, Headers |-> <<>>]

\* NewClient(baseURL)
NewClient(baseURL) == [BaseURL |-> baseURL, Timeout |-> 30, Headers |-> <<>>]

Init ==
  /\ jsc = NewJsonServiceClient(Chars_Base)
  /\ gc = NewClient(Chars_Base \o <<"/">>)
  /\ heap = <<>>
  /\ last = NoCall

\* the heap a call starts with: the container at response's address holding c0
HeapWith(response, c0) == IF response = Nil THEN <<>> ELSE (response.addr :> c0)

\* the record of a call whose first half gave b: done when it returned an error
\* before any request, sent otherwise
CallRecord(client, method, path, request, response, h0, b) ==
  [client |-> client, phase |-> IF b.req = Nil THEN "done" ELSE "sent",
   method |-> method, path |-> path, request |-> request, response |-> response,
   heap0 |-> h0, req |-> b.req, exchanges |-> 0, exch |-> Nil, result |-> Nil,
   err |-> b.err]

\* AfterExchange with the request sent again after an error
AfterExchangeRetrying(err) == IF err # Nil THEN "sent" ELSE "done"

\* where a call stands once its exchange has ended and it has classified the
\* answer: every path of Send and of doRequest behind Do is a return, so the
\* call is done, with an error as without
AfterExchange(err) == "done"

\* Send is called and runs up to the exchange
JsonCall(method, request, responseType, c0) ==
  /\ heap' = HeapWith(responseType, c0)
  /\ last' = CallRecord("json", method, <<>>, request, responseType,
                        HeapWith(responseType, c0), SendRequest(jsc, method, request))
  /\ UNCHANGED <<jsc, gc>>

\* request.ResponseType(): a new zero-valued container, or nil
ResponseType(request, a) == IF request.rt = "none" THEN Nil ELSE Ptr(a)

JsonGet ==
  /\ last = NoCall
  /\ \E request \in IReturnRequests, a \in Addrs :
       JsonCall("GET", request, ResponseType(request, a), ZeroHelloResponse)

JsonPost ==
  /\ last = NoCall
  /\ \E request \in IReturnRequests, a \in Addrs :
       JsonCall("POST", request, ResponseType(request, a), ZeroHelloResponse)

JsonPut ==
  /\ last = NoCall
  /\ \E request \in IReturnRequests, a \in Addrs :
       JsonCall("PUT", request, ResponseType(request, a), ZeroHelloResponse)

JsonDelete ==
  /\ last = NoCall
  /\ \E request \in IReturnRequests, a \in Addrs :
       JsonCall("DELETE", request, ResponseType(request, a), ZeroHelloResponse)

JsonPatch ==
  /\ last = NoCall
  /\ \E request \in IReturnRequests, a \in Addrs :
       JsonCall("PATCH", request, ResponseType(request, a), ZeroHelloResponse)

JsonSend ==
  /\ last = NoCall
  /\ \E method \in SendMethods, request \in Requests,
        responseType \in {Nil} \cup {Ptr(a) : a \in Addrs}, c0 \in Containers :
       JsonCall(method, request, responseType, c0)

\* the exchange of the call in progress ends and Send runs to its return
JsonExchange ==
  /\ last.client = "json"
  /\ last.phase = "sent"
  /\ \E exch \in Exchanges :
       LET out == SendResponse(last.response, heap, exch)
       IN  /\ heap' = out.heap
           /\ last' = [last EXCEPT !.phase = AfterExchange(out.err),
                                   !.exchanges = @ + 1, !.exch = exch,
                                   !.result = out.result, !.err = out.err]
  /\ UNCHANGED <<jsc, gc>>

\* a direct write of the exported Headers map: client.Headers[key] = value
JsonSetHeader ==
  /\ last = NoCall
  /\ \E key \in HeaderNames, value \in HeaderValues :
       jsc' = [jsc EXCEPT !.Headers = (key :> value) @@ @]
  /\ UNCHANGED <<gc, heap, last>>

\* a direct removal from the exported Headers map: delete(client.Headers, key)
JsonDeleteHeader ==
  /\ last = NoCall
  /\ \E key \in DOMAIN jsc.Headers :
       jsc' = [jsc EXCEPT !.Headers = [k \in (DOMAIN @) \ {key} |-> @[k]]]
  /\ UNCHANGED <<gc, heap, last>>

\* the record of a setter that has returned: its name, its arguments and the
\* client as it was before
SetterRecord(op, args, before) ==
  [client |-> "json", phase |-> "set", op |-> op, args |-> args, before |-> before]

\* SetBearerToken(token)
SetBearerToken ==
  /\ last = NoCall
  /\ \E token \in Tokens :
       /\ jsc' = [jsc EXCEPT !.Headers = ("Authorization" :> ("Bearer " \o token)) @@ @]
       /\ last' = SetterRecord("SetBearerToken", <<token>>, jsc)
  /\ UNCHANGED <<gc, heap>>

\* SetCredentials(username, password)
SetCredentials ==
  /\ last = NoCall
  /\ \E cred \in Credentials :
       /\ jsc' = [jsc EXCEPT !.Headers =
                    ("Authorization" :> ("Basic " \o basicAuth(cred[1], cred[2]))) @@ @]
       /\ last' = SetterRecord("SetCredentials", cred, jsc)
  /\ UNCHANGED <<gc, heap>>

\* doRequest is called with the context ctx and runs up to the exchange
ClientCall(ctx, method, path, request, response, c0) ==
  /\ heap' = HeapWith(response, c0)
  /\ last' = [ctx |-> ctx]
               @@ CallRecord("generic", method, path, request, response,
                             HeapWith(response, c0),
                             doRequestRequest(gc, method, path, request))
  /\ UNCHANGED <<jsc, gc>>

Responses == {Nil} \cup {Ptr(a) : a \in Addrs}

ClientGet ==
  /\ last = NoCall
  /\ \E ctx \in Contexts, path \in Paths, response \in Responses, c0 \in Containers :
       ClientCall(ctx, "GET", path, Nil, response, c0)

ClientPost ==
  /\ last = NoCall
  /\ \E ctx \in Contexts, path \in Paths, request \in ClientRequests \cup {Nil},
        response \in Responses, c0 \in Containers :
       ClientCall(ctx, "POST", path, request, response, c0)

ClientPut ==
  /\ last = NoCall
  /\ \E ctx \in Contexts, path \in Paths, request \in ClientRequests \cup {Nil},
        response \in Responses, c0 \in Containers :
       ClientCall(ctx, "PUT", path, request, response, c0)

ClientDelete ==
  /\ last = NoCall
  /\ \E ctx \in Contexts, path \in Paths, response \in Responses, c0 \in Containers :
       ClientCall(ctx, "DELETE", path, Nil, response, c0)

ClientPatch ==
  /\ last = NoCall
  /\ \E ctx \in Contexts, path \in Paths, request \in ClientRequests \cup {Nil},
        response \in Responses, c0 \in Containers :
       ClientCall(ctx, "PATCH", path, request, response, c0)

\* the context of the call in progress is cancelled, or its deadline passes,
\* while the request is with the server
ContextDone ==
  /\ last.client = "generic"
  /\ last.phase = "sent"
  /\ last.ctx = "live"
  /\ \E e \in CtxErrors : last' = [last EXCEPT !.ctx = e]
  /\ UNCHANGED <<jsc, gc, heap>>

\* Do returning whatever the exchange gives, done context or not
DoIgnoringContext(ctx, answer) == answer

\* HTTPClient.Do(req) of a request made with NewRequestWithContext(ctx, ...):
\* the error of the context when the context is done before the answer is
\* there, the answer otherwise
Do(ctx, answer) == IF ctx # "live" THEN [t |-> "doerr", cause |-> ctx] ELSE answer

\* the exchange of the call in progress ends and doRequest runs to its return
ClientExchange ==
  /\ last.client = "generic"
  /\ last.phase = "sent"
  /\ \E answer \in Exchanges :
       LET exch == Do(last.ctx, answer)
           out  == doRequestResponse(last.response, heap, exch)
       IN  /\ heap' = out.heap
           /\ last' = [last EXCEPT !.phase = AfterExchange(out.err),
                                   !.exchanges = @ + 1, !.exch = exch,
                                   !.result = out.result, !.err = out.err]
  /\ UNCHANGED <<jsc, gc>>

\* SetHeader(key, value)
SetHeader ==
  /\ last = NoCall
  /\ \E key \in ClientHeaderNames, value \in ClientHeaderValues :
       gc' = [gc EXCEPT !.Headers = (key :> value) @@ @]
  /\ UNCHANGED <<jsc, heap, last>>

\* a direct removal from the exported Headers map: delete(client.Headers, key)
DeleteHeader ==
  /\ last = NoCall
  /\ \E key \in DOMAIN gc.Headers :
       gc' = [gc EXCEPT !.Headers = [k \in (DOMAIN @) \ {key} |-> @[k]]]
  /\ UNCHANGED <<jsc, heap, last>>

\* the caller has looked at what the call returned and drops it, with the
\* response container
Return ==
  /\ last.phase \in {"done", "set"}
  /\ last' = NoCall
  /\ heap' = <<>>
  /\ UNCHANGED <<jsc, gc>>

\* the operations of the convention-based client
JsonOps ==
  \/ JsonGet \/ JsonPost \/ JsonPut \/ JsonDelete \/ JsonPatch \/ JsonSend
  \/ JsonExchange
  \/ JsonSetHeader \/ JsonDeleteHeader
  \/ SetBearerToken \/ SetCredentials

\* the operations of the generic client
ClientOps ==
  \/ ClientGet \/ ClientPost \/ ClientPut \/ ClientDelete \/ ClientPatch
  \/ ContextDone
  \/ ClientExchange
  \/ SetHeader \/ DeleteHeader

\* a program that uses both clients
Next == JsonOps \/ ClientOps \/ Return

Spec == Init /\ [][Next]_vars

\* a program that uses a JsonServiceClient alone
JsonNext == JsonOps \/ Return

JsonSpec == Init /\ [][JsonNext]_vars

\* a program that uses a Client alone
ClientNext == ClientOps \/ Return

ClientSpec == Init /\ [][ClientNext]_vars

\* the calls of both clients, with the clients as they are made
CallNext ==
  \/ JsonGet \/ JsonPost \/ JsonPut \/ JsonDelete \/ JsonPatch \/ JsonSend
  \/ JsonExchange
  \/ ClientGet \/ ClientPost \/ ClientPut \/ ClientDelete \/ ClientPatch
  \/ ContextDone
  \/ ClientExchange
  \/ Return

CallSpec == Init /\ [][CallNext]_vars

(***************************************************************************)
(* Concurrent use.  One goroutine is inside a call while others write the  *)
(* same client's Headers map.  The loop that copies the map onto the       *)
(* request takes one step for each entry, and the writes fall between the  *)
(* steps: the map has no lock.  The record of such a call also holds the   *)
(* map as it was when the loop began (start), the keys the loop has copied *)
(* (seen) and whether a write fell into the loop (raced).  Reading a map   *)
(* while it is written is a data race: the loop may see the old or the new *)
(* entry, may miss entries, or the runtime may stop the program ("fatal    *)
(* error: concurrent map iteration and map write").                        *)
(***************************************************************************)
\* the request value and the path of the calls made under concurrent writes
RaceRequest == Request(TypeFooPtr, Obj1("name", JStr(Chars_World)), {}, FALSE, "HelloResponse")

RacePath == <<"/", "h", "e", "l", "l", "o">>

\* the record of a call that has built its request, with the defaults for its
\* headers, and enters the loop over the map headers
CopyingRecord(record, headers) ==
  [seen |-> {}, start |-> headers, raced |-> FALSE] @@ [record EXCEPT !.phase = "copying"]

\* Send("GET", request, nil) runs up to the loop over c.Headers
SendCopying ==
  /\ last = NoCall
  /\ heap' = <<>>
  /\ last' = CopyingRecord(
               CallRecord("json", "GET", <<>>, RaceRequest, Nil, <<>>,
                          SendRequest([jsc EXCEPT !.Headers = <<>>], "GET", RaceRequest)),
               jsc.Headers)
  /\ UNCHANGED <<jsc, gc>>

\* Get(ctx, path, nil) runs up to the loop over c.Headers
ClientGetCopying ==
  /\ last = NoCall
  /\ heap' = <<>>
  /\ last' = CopyingRecord(
               [ctx |-> "live"]
                 @@ CallRecord("generic", "GET", RacePath, Nil, Nil, <<>>,
                               doRequestRequest([gc EXCEPT !.Headers = <<>>],
                                                "GET", RacePath, Nil)),
               gc.Headers)
  /\ UNCHANGED <<jsc, gc>>

\* the map of the client of the call in progress
HeadersOf(client) == IF client = "json" THEN jsc.Headers ELSE gc.Headers

\* one turn of the loop: req.Header.Set(key, value) for an entry of the map as
\* it is now
CopyHeader ==
  /\ last.phase = "copying"
  /\ \E key \in (DOMAIN HeadersOf(last.client)) \ last.seen :
       last' = [last EXCEPT !.req.Header = (key :> HeadersOf(last.client)[key]) @@ @,
                            !.seen = @ \cup {key}]
  /\ UNCHANGED <<jsc, gc, heap>>

\* the loop ends and the request goes to Do: when every entry the map had at
\* the start and still has was copied (an entry added meanwhile may be
\* missed), or at any turn once a write has fallen into the loop
CopyDone ==
  /\ last.phase = "copying"
  /\ \/ ((DOMAIN last.start) \cap (DOMAIN HeadersOf(last.client))) \subseteq last.seen
     \/ last.raced
  /\ last' = [last EXCEPT !.phase = "sent"]
  /\ UNCHANGED <<jsc, gc, heap>>

\* the runtime finds the map written while the loop reads it and stops the
\* program
FatalError ==
  /\ last.phase = "copying"
  /\ last.raced
  /\ last' = [last EXCEPT !.phase = "fatal"]
  /\ UNCHANGED <<jsc, gc, heap>>

\* WriteAllowed with a lock that the loop of a call would hold
WriteAllowedOutsideLoop(l) == l.phase # "copying"

\* whether a write of a Headers map may proceed while the call record is l:
\* neither client has a mutex, a write never waits
WriteAllowed(l) == l.phase # "fatal"

\* the record of the call in progress after a write of the map of client
AfterWrite(client) ==
  IF last.phase = "copying" /\ last.client = client
    THEN [last EXCEPT !.raced = TRUE]
    ELSE last

\* SetBearerToken(token) from another goroutine
ConcurrentSetBearerToken ==
  /\ WriteAllowed(last)
  /\ \E token \in Tokens :
       jsc' = [jsc EXCEPT !.Headers = ("Authorization" :> ("Bearer " \o token)) @@ @]
  /\ last' = AfterWrite("json")
  /\ UNCHANGED <<gc, heap>>

\* SetCredentials(username, password) from another goroutine
ConcurrentSetCredentials ==
  /\ WriteAllowed(last)
  /\ \E cred \in Credentials :
       jsc' = [jsc EXCEPT !.Headers =
                 ("Authorization" :> ("Basic " \o basicAuth(cred[1], cred[2]))) @@ @]
  /\ last' = AfterWrite("json")
  /\ UNCHANGED <<gc, heap>>

\* client.Headers[key] = value from another goroutine
ConcurrentJsonSetHeader ==
  /\ WriteAllowed(last)
  /\ \E key \in HeaderNames, value \in HeaderValues :
       jsc' = [jsc EXCEPT !.Headers = (key :> value) @@ @]
  /\ last' = AfterWrite("json")
  /\ UNCHANGED <<gc, heap>>

\* SetHeader(key, value) from another goroutine
ConcurrentSetHeader ==
  /\ WriteAllowed(last)
  /\ \E key \in ClientHeaderNames, value \in ClientHeaderValues :
       gc' = [gc EXCEPT !.Headers = (key :> value) @@ @]
  /\ last' = AfterWrite("generic")
  /\ UNCHANGED <<jsc, heap>>

\* a program whose goroutines share the two clients
RaceNext ==
  \/ SendCopying \/ ClientGetCopying
  \/ CopyHeader \/ CopyDone \/ FatalError
  \/ JsonExchange \/ ClientExchange
  \/ ConcurrentSetBearerToken \/ ConcurrentSetCredentials \/ ConcurrentJsonSetHeader
  \/ ConcurrentSetHeader
  \/ Return

RaceSpec == Init /\ [][RaceNext]_vars

\* a caller that holds an exception and asks for its text
ErrorInit ==
  /\ jsc = NewJsonServiceClient(Chars_Base)
  /\ gc = NewClient(Chars_Base \o <<"/">>)
  /\ heap = <<>>
  /\ \E e \in Exceptions : last = [client |-> "caller", phase |-> "raised", err |-> e, text |-> ""]

\* err.Error()
ErrorCall ==
  /\ last.client = "caller"
  /\ last.phase = "raised"
  /\ last' = [last EXCEPT !.phase = "rendered", !.text = Error(last.err)]
  /\ UNCHANGED <<jsc, gc, heap>>

ErrorNext == ErrorCall

ErrorSpec == ErrorInit /\ [][ErrorNext]_vars

(***************************************************************************)
(* Properties.                                                             *)
(***************************************************************************)
\* a call of the convention-based (generic) client has returned after a
\* completed exchange
JsonResponded == last.client = "json" /\ last.phase = "done" /\ last.exch.t = "resp"

ClientResponded == last.client = "generic" /\ last.phase = "done" /\ last.exch.t = "resp"

\* a call of the convention-based (generic) client has built its request
JsonRequested == last.client = "json" /\ last.phase \in {"sent", "done"} /\ last.req # Nil

ClientRequested == last.client = "generic" /\ last.req # Nil

\* the success range of the specification: 200-299
IsSuccessStatus(code) == code >= 200 /\ code <= 299

\* the body is an object whose "responseStatus" is an object
HasEnvelopeShape(body) ==
  /\ body.syn.t = "obj"
  /\ "responseStatus" \in DOMAIN body.syn.o
  /\ body.syn.o["responseStatus"].t = "obj"

\* an envelope with nothing but the message
MessageOnly(raw) ==
  [ErrorCode |-> "", Message |-> raw, StackTrace |-> "", Errors |-> <<>>, Meta |-> <<>>]

\* the string at key k of the JSON object o, "" when there is none
StringAt(o, k) == IF k \in DOMAIN o /\ o[k].t = "str" THEN o[k].s ELSE ""

\* the body is {"responseStatus": {...}} with an "errors" array of objects
IsEnvelopeBody(body) ==
  /\ HasEnvelopeShape(body)
  /\ LET env == body.syn.o["responseStatus"].o
     IN  /\ \A k \in DOMAIN env \cap {"errorCode", "message", "stackTrace"} : env[k].t = "str"
         /\ "errors" \in DOMAIN env
         /\ env["errors"].t = "arr"
         /\ \A i \in 1..Len(env["errors"].a) : env["errors"].a[i].t = "obj"

\* the exception carries the envelope of the body, field by field and entry by
\* entry
CarriesEnvelope(err, code, body) ==
  LET env  == body.syn.o["responseStatus"].o
      errs == env["errors"].a
  IN  /\ err.t = "WebServiceException"
      /\ err.StatusCode = code
      /\ err.ResponseStatus.ErrorCode = StringAt(env, "errorCode")
      /\ err.ResponseStatus.Message = StringAt(env, "message")
      /\ err.ResponseStatus.StackTrace = StringAt(env, "stackTrace")
      /\ Len(err.ResponseStatus.Errors) = Len(errs)
      /\ \A i \in 1..Len(errs) :
           /\ err.ResponseStatus.Errors[i].ErrorCode = StringAt(errs[i].o, "errorCode")
           /\ err.ResponseStatus.Errors[i].FieldName = StringAt(errs[i].o, "fieldName")
           /\ err.ResponseStatus.Errors[i].Message = StringAt(errs[i].o, "message")

\* C1: a convention-based call whose exchange completes with a status outside
\* 200-299 (1xx and 3xx included) returns a WebServiceException and a nil
\* result, and never decodes the body into the response container.
C1_NonSuccessRaisesException ==
  (JsonResponded /\ ~IsSuccessStatus(last.exch.StatusCode))
    => /\ last.err.t = "WebServiceException"
       /\ last.result = Nil
       /\ heap = last.heap0

\* C2: on a failure status with a body that is valid JSON but has not the
\* {responseStatus: {...}} shape, the exception's envelope holds the raw body
\* as its Message and nothing else.  Stated for the statuses from 400 on, which
\* Send does classify as failures.
C2_ShapelessJsonGivesRawMessage ==
  (/\ JsonResponded
   /\ last.exch.StatusCode >= 400
   /\ last.exch.Body.syn # Invalid
   /\ ~HasEnvelopeShape(last.exch.Body))
    => /\ last.err.t = "WebServiceException"
       /\ last.err.ResponseStatus = MessageOnly(last.exch.Body.raw)

\* C3: on a failure status with a body that is not JSON, the call returns a
\* WebServiceException with the response's status code whose envelope holds the
\* raw body as its Message and nothing else, never the JSON decode error.
C3_PlainTextGivesRawMessage ==
  (/\ JsonResponded
   /\ ~IsSuccessStatus(last.exch.StatusCode)
   /\ last.exch.Body.syn = Invalid)
    => /\ last.err.t = "WebServiceException"
       /\ last.err.StatusCode = last.exch.StatusCode
       /\ last.err.ResponseStatus = MessageOnly(last.exch.Body.raw)

\* what C3 says, for the statuses from 400 on only
PlainTextGivesRawMessageFrom400 ==
  (/\ JsonResponded
   /\ last.exch.StatusCode >= 400
   /\ last.exch.Body.syn = Invalid)
    => /\ last.err.t = "WebServiceException"
       /\ last.err.StatusCode = last.exch.StatusCode
       /\ last.err.ResponseStatus = MessageOnly(last.exch.Body.raw)

\* C4: on a failure status with a body {"responseStatus": {...}}, the exception
\* has the response's status code and the body's errorCode, message and
\* stackTrace, and its Errors are the body's errors, as many and in the same
\* order, each with its errorCode, fieldName and message.
C4_EnvelopeIsCarried ==
  (/\ JsonResponded
   /\ ~IsSuccessStatus(last.exch.StatusCode)
   /\ IsEnvelopeBody(last.exch.Body))
    => CarriesEnvelope(last.err, last.exch.StatusCode, last.exch.Body)

\* what C4 says, for the statuses from 400 on only
EnvelopeIsCarriedFrom400 ==
  (/\ JsonResponded
   /\ last.exch.StatusCode >= 400
   /\ IsEnvelopeBody(last.exch.Body))
    => CarriesEnvelope(last.err, last.exch.StatusCode, last.exch.Body)

\* C5: a generic-client call whose exchange completes with a status outside
\* 200-299 returns the plain error made of the status code and the raw body,
\* whatever the body holds, and leaves the response container as it was.
C5_ClientStatusError ==
  (ClientResponded /\ ~IsSuccessStatus(last.exch.StatusCode))
    => /\ last.err # Nil
       /\ last.err = StatusError(last.exch.StatusCode, last.exch.Body.raw)
       /\ heap = last.heap0

\* a 300 answer with a decodable body and a container holding "old": the error
\* holds 300 and the body, the container still holds "old"
C5_Witness ==
  /\ ClientResponded
  /\ last.exch.StatusCode = 300
  /\ last.exch.Body.syn = Obj1("result", JStr("Hello, World!"))
  /\ last.response # Nil
  /\ last.heap0[last.response.addr].Result = "old"
  /\ heap[last.response.addr].Result = "old"
  /\ last.err.code = 300
  /\ last.err.body = "{\"result\":\"Hello, World!\"}"

\* the bare name of each request type of the model
BareName(type) ==
  CASE type = TypeFooPtr -> "Foo"
    [] type = TypeFoo    -> "Foo"
    [] type = TypeBarPtr -> "Bar"
    [] type = TypeIntPtr -> "int"

\* C6: whatever the method and the field values, the request of a
\* convention-based call goes to BaseURL followed by /json/reply/ and the bare
\* name of the request's type.
C6_PathFromTypeName ==
  JsonRequested
    => last.req.URL.addr
         = StringOf(jsc.BaseURL) \o "/json/reply/" \o BareName(last.request.type)

\* a DELETE of a *main.Foo goes to http://h/json/reply/Foo
C6_Witness ==
  /\ JsonRequested
  /\ last.method = "DELETE"
  /\ last.request.type = TypeFooPtr
  /\ last.req.URL.addr = "http://h/json/reply/Foo"

\* the keys of the request's JSON encoding whose value is not null
NonNullKeys(request) ==
  LET j == Marshal(request).syn
  IN  IF j.t = "obj" THEN {k \in DOMAIN j.o : j.o[k] # JNull} ELSE {}

\* C7: the request of a convention-based GET or DELETE has no body, and its
\* query string has exactly one parameter for each key of the request's JSON
\* whose value is not null (zero values included), named by the key, and none
\* for another key.
C7_QueryHasNonNullKeys ==
  (JsonRequested /\ last.method \in {"GET", "DELETE"})
    => LET q == last.req.URL.query
       IN  /\ last.req.Body = Nil
           /\ {q[i].name : i \in 1..Len(q)} = NonNullKeys(last.request)
           /\ Len(q) = Cardinality(NonNullKeys(last.request))

\* a GET of {name: "", age: 0, nick: null, vip: false} carries age, name and vip
C7_Witness ==
  /\ JsonRequested
  /\ last.method = "GET"
  /\ last.request.val = BarVal(JStr(<<>>), JNum(0), JNull, JBool(FALSE))
  /\ last.req.Body = Nil
  /\ last.req.URL.query = << [name |-> "age", value |-> "0"],
                             [name |-> "name", value |-> ""],
                             [name |-> "vip", value |-> "false"] >>

\* C8: the request of a convention-based POST, PUT or PATCH carries the JSON
\* encoding of the request as its body and has no query string.
C8_BodyAndNoQuery ==
  (JsonRequested /\ last.method \in {"POST", "PUT", "PATCH"})
    => /\ last.req.Body # Nil
       /\ last.req.Body.syn = Marshal(last.request).syn
       /\ last.req.URL.query = <<>>

\* a PATCH of {name: "", age: 0, nick: null, vip: false} carries all four keys
\* in its body and no query string
C8_Witness ==
  /\ JsonRequested
  /\ last.method = "PATCH"
  /\ last.request.val = BarVal(JStr(<<>>), JNum(0), JNull, JBool(FALSE))
  /\ last.req.Body.syn = BarVal(JStr(<<>>), JNum(0), JNull, JBool(FALSE))
  /\ last.req.URL = URL("http://h/json/reply/Bar", <<>>)

\* the body is JSON that decodes into a HelloResponse
FitsHelloResponse(body) ==
  \/ body.syn.t = "null"
  \/ /\ body.syn.t = "obj"
     /\ "result" \in DOMAIN body.syn.o => body.syn.o["result"].t \in {"str", "null"}

\* the Result a HelloResponse holding old has after such a body is decoded into it
ResultAfter(body, old) ==
  IF body.syn.t = "obj" /\ "result" \in DOMAIN body.syn.o /\ body.syn.o["result"].t = "str"
    THEN body.syn.o["result"].s
    ELSE old

\* C9: on a success status with a body that is JSON of the response's shape, a
\* convention-based call returns, with a nil error, the very container it was
\* given as the response type, populated from the body; with a nil response
\* type it decodes nothing and returns a nil result and a nil error.
C9_SuccessReturnsContainer ==
  (JsonResponded /\ IsSuccessStatus(last.exch.StatusCode))
    => /\ (last.response # Nil /\ FitsHelloResponse(last.exch.Body))
            => /\ last.err = Nil
               /\ last.result = last.response
               /\ heap[last.response.addr].Result
                    = ResultAfter(last.exch.Body, last.heap0[last.response.addr].Result)
       /\ last.response = Nil
            => /\ last.err = Nil
               /\ last.result = Nil
               /\ heap = last.heap0

\* a POST answered 200 {"result":"Hello, World!"} returns its container with
\* that Result
C9_Witness ==
  /\ JsonResponded
  /\ last.method = "POST"
  /\ last.exch.StatusCode = 200
  /\ last.exch.Body.raw = "{\"result\":\"Hello, World!\"}"
  /\ last.response = Ptr(2)
  /\ last.result = Ptr(2)
  /\ last.err = Nil
  /\ heap[2].Result = "Hello, World!"

\* C10: a generic-client call that ends with a status in 200-299 decodes a
\* non-empty body into a non-nil container in place and returns nil, or returns
\* a decode error when the body does not decode; with a nil container or an
\* empty body it decodes nothing and returns nil.
C10_ClientSuccess ==
  (ClientResponded /\ IsSuccessStatus(last.exch.StatusCode))
    => IF last.response # Nil /\ last.exch.Body.raw # ""
         THEN IF FitsHelloResponse(last.exch.Body)
                THEN /\ last.err = Nil
                     /\ heap[last.response.addr].Result
                          = ResultAfter(last.exch.Body, last.heap0[last.response.addr].Result)
                ELSE /\ last.err # Nil
                     /\ last.err = Wrap("failed to unmarshal response: %w", DecodeError)
         ELSE /\ last.err = Nil
              /\ heap = last.heap0

\* a GET answered 299 with an empty body leaves the container holding "old" and
\* returns nil
C10_Witness ==
  /\ ClientResponded
  /\ last.method = "GET"
  /\ last.exch.StatusCode = 299
  /\ last.exch.Body.raw = ""
  /\ last.response # Nil
  /\ last.heap0[last.response.addr].Result = "old"
  /\ heap[last.response.addr].Result = "old"
  /\ last.err = Nil

\* C11: the request of a convention-based call, no Content-Type being
\* configured, carries Accept: application/json, and carries Content-Type
\* exactly when it has a body: a GET or a DELETE, which has none, carries no
\* Content-Type.
C11_ContentTypeOnlyWithBody ==
  (JsonRequested /\ "Content-Type" \notin DOMAIN jsc.Headers)
    => /\ "Accept" \in DOMAIN last.req.Header
       /\ last.req.Header["Accept"] = "application/json"
       /\ ("Content-Type" \in DOMAIN last.req.Header) <=> (last.req.Body # Nil)

\* the part of C11 about Accept alone
AcceptIsAlwaysSent ==
  JsonRequested
    => /\ "Accept" \in DOMAIN last.req.Header
       /\ last.req.Header["Accept"] = "application/json"

\* C12: the request of a generic-client call carries every configured header
\* with its configured value, Accept: application/json unless Accept is
\* configured, Content-Type: application/json exactly when a request value is
\* given (never on a Get or a Delete) unless Content-Type is configured, and
\* nothing else.
C12_ClientHeaders ==
  ClientRequested
    => LET h == last.req.Header
       IN  /\ \A k \in DOMAIN gc.Headers : k \in DOMAIN h /\ h[k] = gc.Headers[k]
           /\ "Accept" \in DOMAIN h
           /\ "Accept" \notin DOMAIN gc.Headers => h["Accept"] = "application/json"
           /\ "Content-Type" \notin DOMAIN gc.Headers
                => /\ ("Content-Type" \in DOMAIN h) <=> (last.request # Nil)
                   /\ "Content-Type" \in DOMAIN h => h["Content-Type"] = "application/json"
                   /\ last.method \in {"GET", "DELETE"} => "Content-Type" \notin DOMAIN h
           /\ DOMAIN h \subseteq {"Accept", "Content-Type"} \cup DOMAIN gc.Headers

\* a POST of a request value by a client configured with Accept: text/plain
\* carries Accept: text/plain and Content-Type: application/json
C12_Witness ==
  /\ ClientRequested
  /\ last.method = "POST"
  /\ last.request # Nil
  /\ "Accept" \in DOMAIN gc.Headers
  /\ gc.Headers["Accept"] = "text/plain"
  /\ last.req.Header["Accept"] = "text/plain"
  /\ last.req.Header["Content-Type"] = "application/json"

\* the headers each client sets by itself
JsonDefaultHeaders == {"Content-Type", "Accept"}

ClientDefaultHeaders == {"Content-Type", "Accept"}

\* the request carries every entry of the mapping with its value, and nothing
\* besides the entries of the mapping and the client's defaults
CarriesMapping(req, headers, defaults) ==
  /\ \A k \in DOMAIN headers : k \in DOMAIN req.Header /\ req.Header[k] = headers[k]
  /\ DOMAIN req.Header \subseteq (DOMAIN headers) \cup defaults

\* a step that starts, advances or ends a call
IsCallStep == last.phase \in {"sent", "done"} \/ last'.phase \in {"sent", "done"}

\* C13: for both clients, the request of every call carries the header mapping
\* as the writes before the call left it: each key written and not removed
\* since, with the value written last, never an earlier one, and no key that was
\* removed; and no call changes the mapping, so that it stays as written from
\* one call to the next.
C13_HeadersPersist ==
  /\ [](JsonRequested => CarriesMapping(last.req, jsc.Headers, JsonDefaultHeaders))
  /\ [](ClientRequested => CarriesMapping(last.req, gc.Headers, ClientDefaultHeaders))
  /\ [][IsCallStep => (jsc'.Headers = jsc.Headers /\ gc'.Headers = gc.Headers)]_vars

\* a call of the generic client whose mapping holds Accept: application/xml,
\* one of the two values a SetHeader writes, carries that value
C13_Witness ==
  /\ ClientRequested
  /\ last.phase = "done"
  /\ "Accept" \in DOMAIN gc.Headers
  /\ gc.Headers["Accept"] = "application/xml"
  /\ last.req.Header["Accept"] = "application/xml"

\* the standard padded base64 of username:password, for the pairs of the model
Base64Of(cred) ==
  CASE cred = <<(<<"u", "s", "e", "r">>), (<<"p", "a", "s", "s">>)>> -> "dXNlcjpwYXNz"
    [] cred = <<(<<"a">>), (<<>>)>>                                   -> "YTo="

\* a setter of the convention-based client has returned
SetterReturned == last.client = "json" /\ last.phase = "set"

\* C14: after SetBearerToken(t) or SetCredentials(u, p), whatever the mapping
\* held before (an Authorization entry of either kind included), the mapping
\* holds Authorization with "Bearer " + t, or "Basic " + the padded base64 of
\* u:p, the value of this call alone; its other entries, the base URL and the
\* timeout are as they were.
C14_AuthorizationOfLastCall ==
  SetterReturned
    => /\ "Authorization" \in DOMAIN jsc.Headers
       /\ last.op = "SetBearerToken"
            => jsc.Headers["Authorization"] = "Bearer " \o last.args[1]
       /\ last.op = "SetCredentials"
            => jsc.Headers["Authorization"] = "Basic " \o Base64Of(last.args)
       /\ DOMAIN jsc.Headers = (DOMAIN last.before.Headers) \cup {"Authorization"}
       /\ \A k \in (DOMAIN last.before.Headers) \ {"Authorization"} :
            jsc.Headers[k] = last.before.Headers[k]
       /\ jsc.BaseURL = last.before.BaseURL
       /\ jsc.Timeout = last.before.Timeout

\* SetCredentials("user", "pass") on a client holding Authorization: Bearer abc
\* and X-Custom-Header leaves Authorization: Basic dXNlcjpwYXNz and the custom
\* header
C14_Witness ==
  /\ SetterReturned
  /\ last.op = "SetCredentials"
  /\ "Authorization" \in DOMAIN last.before.Headers
  /\ last.before.Headers["Authorization"] = "Bearer abc"
  /\ "X-Custom-Header" \in DOMAIN last.before.Headers
  /\ jsc.Headers["Authorization"] = "Basic dXNlcjpwYXNz"
  /\ jsc.Headers["X-Custom-Header"] = "custom-value"

\* the decimal text of the status codes of the hand-built exceptions
CodeText(c) ==
  CASE c = 400 -> "400" [] c = 404 -> "404" [] c = 500 -> "500" [] c = 503 -> "503"

\* a caller has asked an exception for its text
ErrorRendered == last.client = "caller" /\ last.phase = "rendered"

\* C15: the text of an exception with code c, description t and message m is
\* "c t: m" when m is not empty and "c t" when it is, whatever its error code,
\* its stack trace and its field errors are.
C15_ErrorRendering ==
  ErrorRendered
    => LET c == last.err.StatusCode
           t == last.err.StatusDescription
           m == last.err.ResponseStatus.Message
       IN  /\ m # "" => last.text = CodeText(c) \o " " \o t \o ": " \o m
           /\ m = "" => last.text = CodeText(c) \o " " \o t

\* an exception 500 Internal Server Error with no message, but with an error
\* code, a stack trace and a field error, reads "500 Internal Server Error"
C15_Witness ==
  /\ ErrorRendered
  /\ last.err.StatusCode = 500
  /\ last.err.ResponseStatus.Message = ""
  /\ last.err.ResponseStatus.ErrorCode = "ValidationError"
  /\ last.err.ResponseStatus.StackTrace = "at X"
  /\ last.err.ResponseStatus.Errors # <<>>
  /\ last.text = "500 Internal Server Error"

\* C16: the exception Send raises for a response with status code c and reason
\* text t has StatusCode c and StatusDescription t, the reason text without the
\* code, so that its text starts "c t" and names the code once.
C16_DescriptionIsReasonText ==
  (JsonResponded /\ last.err.t = "WebServiceException")
    => LET c == last.exch.StatusCode
           t == StatusText(c)
           m == last.err.ResponseStatus.Message
       IN  /\ last.err.StatusCode = c
           /\ last.err.StatusDescription = t
           /\ Error(last.err)
                = StringOf(Digits(c)) \o " " \o t \o (IF m # "" THEN ": " \o m ELSE "")

\* the part of C16 about the status code alone
ExceptionHasStatusCode ==
  (JsonResponded /\ last.err.t = "WebServiceException")
    => last.err.StatusCode = last.exch.StatusCode

\* errors.Is(err, cause) for the errors of the model: err wraps, with %w, the
\* transport error whose cause is the context's error
WrapsContextError(err, cause) ==
  /\ err.t = "Errorf"
  /\ "w" \in DOMAIN err
  /\ err.w.t = "url.Error"
  /\ err.w.cause = cause

\* a call of the generic client that built its request has returned
ClientReturned == ClientRequested /\ last.phase = "done"

\* C17: a generic-client call whose context is cancelled, or past its deadline,
\* before the answer is there returns an error that wraps the context's error,
\* so neither nil, nor the status error, nor another transport error, and it
\* leaves the response container as it was, whatever the server answers.
C17_CancelledCallFails ==
  (ClientReturned /\ last.ctx # "live")
    => /\ last.err # Nil
       /\ WrapsContextError(last.err, last.ctx)
       /\ \A cause \in {"timeout", "refused"} : ~WrapsContextError(last.err, cause)
       /\ last.exch.t = "doerr"
       /\ heap = last.heap0

\* a Get with a container holding "old" whose deadline passed returns the
\* error wrapping "context deadline exceeded" and leaves "old"
C17_Witness ==
  /\ ClientReturned
  /\ last.method = "GET"
  /\ last.ctx = "context deadline exceeded"
  /\ last.response # Nil
  /\ last.heap0[last.response.addr].Result = "old"
  /\ heap[last.response.addr].Result = "old"
  /\ last.err = Wrap("failed to execute request: %w",
                     TransportError("context deadline exceeded"))

\* a call of the convention-based client has returned
JsonReturned == last.client = "json" /\ last.phase = "done"

\* C18: a convention-based call returns a WebServiceException exactly when its
\* exchange completed with a failure status, one outside 200-299; every other
\* error (of the transport, of the encoding of the request, of the decoding of
\* a successful response) is no WebServiceException and has no status code; and
\* with every error the result is nil.
C18_ExceptionIffFailure ==
  JsonReturned
    => /\ (last.err.t = "WebServiceException")
            <=> (last.exch.t = "resp" /\ ~IsSuccessStatus(last.exch.StatusCode))
       /\ (last.err # Nil /\ last.err.t # "WebServiceException")
            => "StatusCode" \notin DOMAIN last.err
       /\ last.err # Nil => last.result = Nil

\* what C18 says, with the statuses from 400 on as the failure statuses
ExceptionIffStatusFrom400 ==
  JsonReturned
    => /\ (last.err.t = "WebServiceException")
            <=> (last.exch.t = "resp" /\ last.exch.StatusCode >= 400)
       /\ (last.err # Nil /\ last.err.t # "WebServiceException")
            => "StatusCode" \notin DOMAIN last.err
       /\ last.err # Nil => last.result = Nil

\* C19: on a success status with an empty body, a generic-client call returns
\* nil and leaves the response container as it was, while a convention-based
\* call with a response type returns the decode error, which is no
\* WebServiceException, and a nil result.
C19_EmptyBodyOnSuccess ==
  /\ (/\ ClientResponded
      /\ IsSuccessStatus(last.exch.StatusCode)
      /\ last.exch.Body.raw = "")
       => /\ last.err = Nil
          /\ heap = last.heap0
  /\ (/\ JsonResponded
      /\ IsSuccessStatus(last.exch.StatusCode)
      /\ last.exch.Body.raw = ""
      /\ last.response # Nil)
       => /\ last.err = Wrap("failed to unmarshal response: %w", DecodeError)
          /\ last.err.t # "WebServiceException"
          /\ last.result = Nil

\* a convention-based GET with a response type, answered 200 with an empty
\* body, returns the decode error and no result
C19_Witness ==
  /\ JsonResponded
  /\ last.method = "GET"
  /\ last.exch.StatusCode = 200
  /\ last.exch.Body.raw = ""
  /\ last.response # Nil
  /\ last.err.t = "Errorf"
  /\ last.err.w = DecodeError
  /\ last.result = Nil

\* the whole numbers among the top-level values of the request's JSON object,
\* by key
NumericKeys(request) ==
  LET j == Marshal(request).syn
  IN  IF j.t = "obj" THEN {k \in DOMAIN j.o : j.o[k].t = "num"} ELSE {}

\* the query string q has the parameter k with the text v
HasParameter(q, k, v) == \E i \in 1..Len(q) : q[i].name = k /\ q[i].value = v

\* C20: the query string of a convention-based GET or DELETE carries each
\* numeric field whose value is the integer n as the plain decimal digits of n,
\* for every n of the requests of the model, 1000000 included.
C20_IntegersRenderedPlain ==
  (JsonRequested /\ last.method \in {"GET", "DELETE"})
    => \A k \in NumericKeys(last.request) :
         HasParameter(last.req.URL.query, k,
                      StringOf(Digits(Marshal(last.request).syn.o[k].n)))

\* what C20 says, for the integers below 1000000 only
IntegersBelowMillionRenderedPlain ==
  (JsonRequested /\ last.method \in {"GET", "DELETE"})
    => \A k \in NumericKeys(last.request) :
         Marshal(last.request).syn.o[k].n < 1000000
           => HasParameter(last.req.URL.query, k,
                           StringOf(Digits(Marshal(last.request).syn.o[k].n)))

\* a call of either client is in progress or has returned
InCall == last.client \in {"json", "generic"} /\ last.phase \in {"sent", "done"}

\* the request value of the call cannot be serialized to JSON
Unserializable == last.request # Nil /\ Marshal(last.request).e

\* C21: a call of either client performs at most one exchange: exactly one when
\* it built its request and has returned, with a transport error, a failure
\* status or a decode error as with a success, and none, returning the encoding
\* error, when its request value cannot be serialized; and a call that has
\* returned does nothing more.
C21_AtMostOneExchange ==
  /\ [](InCall => /\ last.exchanges <= 1
                  /\ (last.phase = "done" /\ last.req # Nil) => last.exchanges = 1
                  /\ Unserializable => /\ last.phase = "done"
                                       /\ last.exchanges = 0
                                       /\ last.req = Nil
                                       /\ last.exch = Nil
                                       /\ last.err # Nil)
  /\ [][(InCall /\ last.phase = "done") => last' = NoCall]_vars

\* a convention-based POST whose exchange failed in the transport has returned
\* that error after one exchange
C21_Witness ==
  /\ InCall
  /\ last.client = "json"
  /\ last.method = "POST"
  /\ last.phase = "done"
  /\ last.exch.t = "doerr"
  /\ last.err = Wrap("failed to send request: %w", TransportError("refused"))
  /\ last.exchanges = 1

\* a call made under concurrent writes is in the loop over the map
InCopyLoop(client) ==
  /\ last.client = client
  /\ last.phase = "copying"

\* such a call has left the loop
LeftCopyLoop == "raced" \in DOMAIN last /\ last.phase \in {"sent", "done"}

\* the values the writes of the model give to key k of the map of client
WrittenValues(client, k) ==
  IF client = "generic" THEN ClientHeaderValues
  ELSE IF k = "Authorization" THEN {"Bearer abc", "Basic dXNlcjpwYXNz", "Basic YTo="}
  ELSE HeaderValues

\* C22: nothing excludes a write of a client's header mapping while a call of
\* that client copies the mapping onto its request: in every state inside the
\* loop SetBearerToken, SetCredentials and a direct write (SetHeader on the
\* generic client) can take their step.  A call no write has fallen into sends
\* the mapping as it was at the start of the loop; otherwise each header
\* of the request is a default, the old value of its key or a written one.
C22_HeaderWritesAreUnguarded ==
  /\ InCopyLoop("json")
       => /\ ENABLED ConcurrentSetBearerToken
          /\ ENABLED ConcurrentSetCredentials
          /\ ENABLED ConcurrentJsonSetHeader
  /\ InCopyLoop("generic") => ENABLED ConcurrentSetHeader
  /\ (LeftCopyLoop /\ ~last.raced)
       => CarriesMapping(last.req, last.start, {"Content-Type", "Accept"})
  /\ LeftCopyLoop
       => \A k \in DOMAIN last.req.Header :
            \/ k \in {"Content-Type", "Accept"} /\ last.req.Header[k] = "application/json"
            \/ k \in DOMAIN last.start /\ last.req.Header[k] = last.start[k]
            \/ last.req.Header[k] \in WrittenValues(last.client, k)

\* a call still in the loop that writes have fallen into: its request has the
\* Authorization the map held at the start, which SetCredentials has replaced
\* in the map since, and the X-Custom-Header written after the loop began
C22_Witness ==
  /\ InCopyLoop("json")
  /\ last.raced
  /\ "Authorization" \in DOMAIN last.start
  /\ last.start["Authorization"] = "Bearer abc"
  /\ "X-Custom-Header" \notin DOMAIN last.start
  /\ last.seen = {"Authorization", "X-Custom-Header"}
  /\ last.req.Header["Authorization"] = "Bearer abc"
  /\ jsc.Headers["Authorization"] = "Basic dXNlcjpwYXNz"
  /\ last.req.Header["X-Custom-Header"] = "custom-value"

====
